---------------------------- MODULE Spec2Model ----------------------------
(***************************************************************************)
(* Model of app.py: the ORF ski world-cup "points per nation" pipeline.    *)
(*                                                                         *)
(*   extract_event_id_from_url   url string        -> event id / ValueError*)
(*   _find_result_items          JSON value        -> list of dicts        *)
(*   parse_results_from_json     JSON document     -> DataFrame / raise    *)
(*   compute_points_by_nation    DataFrame         -> DataFrame / raise    *)
(*   the submit handler          the four steps under one try/except       *)
(*                                                                         *)
(* Python strings are sequences of one-character strings, JSON values a    *)
(* tagged union, a call's outcome a record [kind |-> "ok" | "raise", ...].  *)
(***************************************************************************)
EXTENDS Integers, Sequences, FiniteSets, TLC

VARIABLES
    user_url,     \* the text of the URL input field
    event_id,     \* outcome of extract_event_id_from_url(user_url)
    obj,          \* JSON values under construction; obj[1] is searched
    found,        \* outcome of _find_result_items(obj[1])
    data,         \* the JSON document handed to parse_results_from_json
    df_results,   \* outcome of parse_results_from_json(data)
    df,           \* the DataFrame handed to compute_points_by_nation
    df_nat,       \* outcome of compute_points_by_nation(df)
    fetched,      \* outcome of fetch_orf_json(event_id) in the submit handler
    pc,           \* position of the submit handler
    log,          \* the calls the submit handler has made, in order
    report        \* what the submit handler has shown to the user

vars == <<user_url, event_id, obj, found, data, df_results, df, df_nat,
          fetched, pc, log, report>>

NotCalled == [kind |-> "none"]
Ok(v)     == [kind |-> "ok", val |-> v]
Raise(e)  == [kind |-> "raise", exc |-> e]

(***************************************************************************)
(* Bounds of the model.                                                    *)
(***************************************************************************)
MaxFragments == 4      \* URL = at most this many fragments
MaxNodes     == 5      \* JSON tree of the record search: at most this many nodes
MaxItems     == 2      \* entries of "Results"
MaxRows      == 3      \* rows of a DataFrame handed to the aggregator

(***************************************************************************)
(* Python strings                                                          *)
(***************************************************************************)
\* \d and int() also take the other Unicode decimal digits; the strings of
\* the model are written with these ten
Digits  == {"0", "1", "2", "3", "4", "5", "6", "7", "8", "9"}
IsDigit(c) == c \in Digits
IsSpace(c) == c = " "

\* str.strip(): leading and trailing whitespace removed
RECURSIVE LStrip(_)
LStrip(s) == IF s # <<>> /\ IsSpace(Head(s)) THEN LStrip(Tail(s)) ELSE s
RECURSIVE RStrip(_)
RStrip(s) ==
    IF s # <<>> /\ IsSpace(s[Len(s)]) THEN RStrip(SubSeq(s, 1, Len(s) - 1)) ELSE s
Strip(s) == RStrip(LStrip(s))

(***************************************************************************)
(* extract_event_id_from_url : re.search(r"(?:/event/|/sportevents/)(\d+)") *)
(***************************************************************************)
Marker_event       == <<"/", "e", "v", "e", "n", "t", "/">>
Marker_sportevents == <<"/", "s", "p", "o", "r", "t", "e", "v", "e", "n", "t", "s", "/">>
\* the alternation, in the order the pattern lists it
Alternatives == <<Marker_event, Marker_sportevents>>

\* the literal m occurs in s starting at index i
HasAt(s, i, m) ==
    /\ i + Len(m) - 1 <= Len(s)
    /\ \A k \in 1..Len(m) : s[i + k - 1] = m[k]

\* the group as the lazy \d+? would match it: one digit only
DigitsEnd_lazy(s, j) == IF j <= Len(s) /\ IsDigit(s[j]) THEN j ELSE j - 1

\* (\d+) is greedy: index of the last digit of the run starting at j,
\* j - 1 when s[j] is no digit
RECURSIVE DigitsEnd(_, _)
DigitsEnd(s, j) ==
    IF j <= Len(s) /\ IsDigit(s[j]) THEN DigitsEnd(s, j + 1) ELSE j - 1

\* the alternatives that match at i and are followed by at least one digit
AltsAt(s, i) ==
    {a \in 1..Len(Alternatives) :
        /\ HasAt(s, i, Alternatives[a])
        /\ DigitsEnd(s, i + Len(Alternatives[a])) >= i + Len(Alternatives[a])}

Min(S) == CHOOSE x \in S : \A y \in S : x <= y

\* re.search: the leftmost start at which the pattern matches; at that start
\* the first alternative that leads to a match; group 1 is the digit run
re_search(s) ==
    LET starts == {i \in 1..Len(s) : AltsAt(s, i) # {}}
    IN  IF starts = {} THEN [matched |-> FALSE]
        ELSE LET i == Min(starts)
                 a == Min(AltsAt(s, i))
                 j == i + Len(Alternatives[a])
             IN  [matched |-> TRUE, start |-> i,
                  group1 |-> SubSeq(s, j, DigitsEnd(s, j))]

extract_event_id_from_url(url) ==
    LET m == re_search(url)
    IN  IF ~m.matched THEN Raise("ValueError") ELSE Ok(m.group1)

\* the URLs of the model: concatenations of at most n fragments
Fragments ==
    {Marker_event, Marker_sportevents,
     <<"/", "e", "v", "e", "n", "t">>, <<"0">>, <<"7">>, <<"x">>, <<"/">>}
RECURSIVE Urls(_)
Urls(n) ==
    IF n = 0 THEN {<<>>}
    ELSE LET U == Urls(n - 1) IN U \cup {u \o f : u \in U, f \in Fragments}

(***************************************************************************)
(* JSON values as json.loads builds them.  A dict keeps its keys in        *)
(* document order: kv is a sequence of [k |-> key, v |-> value] with       *)
(* distinct keys.  A float is finite (in tenths), inf or nan.              *)
(***************************************************************************)
JNull        == [t |-> "null"]
JStr(s)      == [t |-> "str", s |-> s]
JInt(n)      == [t |-> "int", n |-> n]
JFloat(c, x) == [t |-> "float", cls |-> c, tenths |-> x]
JBool(b)     == [t |-> "bool", b |-> b]
JList(xs)    == [t |-> "list", items |-> xs]
JDict(kv)    == [t |-> "dict", kv |-> kv]

KeysOf(o) == {o.kv[i].k : i \in 1..Len(o.kv)}

(***************************************************************************)
(* _find_result_items                                                      *)
(***************************************************************************)
RankKeys   == {"rank", "position", "place"}
NationKeys == {"nation", "nationShort", "countryCode", "country"}

\* the heuristic with "and" slipped to "or"
LooksLikeResult_or(o) ==
    LET keys == KeysOf(o)
    IN  (\E k \in RankKeys : k \in keys) \/ (\E k \in NationKeys : k \in keys)

\* has_rank and has_nation, lines 64-70
LooksLikeResult(o) ==
    LET keys       == KeysOf(o)
        has_rank   == \E k \in RankKeys : k \in keys
        has_nation == \E k \in NationKeys : k \in keys
    IN  has_rank /\ has_nation

RECURSIVE find_result_items(_), find_in_each(_)
\* found.extend(_find_result_items(x)) for x in xs, in order
find_in_each(xs) ==
    IF xs = <<>> THEN <<>>
    ELSE find_result_items(Head(xs)) \o find_in_each(Tail(xs))

find_result_items(o) ==
    IF o.t = "dict"
    THEN (IF LooksLikeResult(o) THEN <<o>> ELSE <<>>)
         \o find_in_each([i \in 1..Len(o.kv) |-> o.kv[i].v])
    ELSE IF o.t = "list" THEN find_in_each(o.items)
    ELSE <<>>

\* number of nodes of a JSON value / of a sequence of them
RECURSIVE Size(_), SizeAll(_)
SizeAll(xs) == IF xs = <<>> THEN 0 ELSE Size(Head(xs)) + SizeAll(Tail(xs))
Size(o) ==
    IF o.t = "dict" THEN 1 + SizeAll([i \in 1..Len(o.kv) |-> o.kv[i].v])
    ELSE IF o.t = "list" THEN 1 + SizeAll(o.items)
    ELSE 1

\* the keys and scalars the trees of the model are built from
BuildKeys    == {"place", "country", "Rank"}
BuildScalars == {JInt(1)}
\* sequences of n distinct keys
KeySeqs(n) == {ks \in [1..n -> BuildKeys] : \A i, j \in 1..n : i # j => ks[i] # ks[j]}

(***************************************************************************)
(* Python built-ins used by parse_results_from_json                        *)
(***************************************************************************)
\* dict.get(key): the value, None (= JSON null) when the key is missing
Get(o, key) ==
    IF key \in KeysOf(o)
    THEN o.kv[CHOOSE i \in 1..Len(o.kv) : o.kv[i].k = key].v
    ELSE JNull

\* bool(v)
Truthy(v) ==
    CASE v.t = "null"  -> FALSE
      [] v.t = "str"   -> v.s # <<>>
      [] v.t = "int"   -> v.n # 0
      [] v.t = "float" -> ~(v.cls = "fin" /\ v.tenths = 0)
      [] v.t = "bool"  -> v.b
      [] v.t = "list"  -> v.items # <<>>
      [] v.t = "dict"  -> v.kv # <<>>

DigitVal ==
    ("0" :> 0) @@ ("1" :> 1) @@ ("2" :> 2) @@ ("3" :> 3) @@ ("4" :> 4) @@
    ("5" :> 5) @@ ("6" :> 6) @@ ("7" :> 7) @@ ("8" :> 8) @@ ("9" :> 9)

\* the value of a digit string, "_" separators skipped
RECURSIVE DecimalValue(_, _)
DecimalValue(s, acc) ==
    IF s = <<>> THEN acc
    ELSE IF Head(s) = "_" THEN DecimalValue(Tail(s), acc)
    ELSE DecimalValue(Tail(s), 10 * acc + DigitVal[Head(s)])

\* digits, single underscores only between digits
IsDecimalBody(s) ==
    /\ s # <<>>
    /\ \A i \in 1..Len(s) : IsDigit(s[i]) \/ s[i] = "_"
    /\ IsDigit(s[1]) /\ IsDigit(s[Len(s)])
    /\ \A i \in 1..(Len(s) - 1) : ~(s[i] = "_" /\ s[i + 1] = "_")

\* int(str): surrounding whitespace stripped, an optional sign, decimal digits
int_of_str(s) ==
    LET t    == Strip(s)
        sgn  == t # <<>> /\ Head(t) \in {"+", "-"}
        body == IF sgn THEN Tail(t) ELSE t
    IN  IF ~IsDecimalBody(body) THEN Raise("ValueError")
        ELSE IF sgn /\ Head(t) = "-" THEN Ok(0 - DecimalValue(body, 0))
        ELSE Ok(DecimalValue(body, 0))

\* int(float): truncation towards zero; inf and nan cannot be converted
int_of_float(v) ==
    CASE v.cls = "inf" -> Raise("OverflowError")
      [] v.cls = "nan" -> Raise("ValueError")
      [] v.cls = "fin" ->
            IF v.tenths >= 0 THEN Ok(v.tenths \div 10)
            ELSE Ok(0 - ((0 - v.tenths) \div 10))

\* int(v)
py_int(v) ==
    CASE v.t = "int"   -> Ok(v.n)
      [] v.t = "bool"  -> Ok(IF v.b THEN 1 ELSE 0)
      [] v.t = "str"   -> int_of_str(v.s)
      [] v.t = "float" -> int_of_float(v)
      [] OTHER         -> Raise("TypeError")

\* a + b where one operand is known to be a str: str + str concatenates,
\* anything else raises TypeError
py_add(a, b) ==
    IF a.t = "str" /\ b.t = "str" THEN Ok(JStr(a.s \o b.s)) ELSE Raise("TypeError")

\* x or ""
OrEmpty(v) == IF Truthy(v) THEN v ELSE JStr(<<>>)

\* iter(v) of "for item in results"
py_iter(v) ==
    CASE v.t = "list" -> Ok(v.items)
      [] v.t = "str"  -> Ok([i \in 1..Len(v.s) |-> JStr(<<v.s[i]>>)])
      \* a dict yields its keys, each a str (the key kept whole)
      [] v.t = "dict" -> Ok([i \in 1..Len(v.kv) |-> JStr(<<v.kv[i].k>>)])
      [] OTHER        -> Raise("TypeError")

(***************************************************************************)
(* pandas                                                                  *)
(***************************************************************************)
\* pd.DataFrame(rows) of a list of dicts: the columns are the dicts' keys,
\* so an empty list gives a frame with no columns at all
DataFrame(rows) ==
    [columns |-> IF rows = <<>> THEN {} ELSE {"Rank", "Nation", "Name"},
     rows    |-> rows]

\* df.empty
IsEmpty(frame) == frame.rows = <<>>

Perms(n) == {p \in [1..n -> 1..n] : \A i, j \in 1..n : i # j => p[i] # p[j]}

\* DataFrame.sort_values(by) is called without kind=, so with the default
\* kind="quicksort", which pandas documents as not stable: the result is in
\* key order and the order among equal keys is whatever the numpy build
\* yields.  The set of results the call can return.
sort_values(rows, by, ascending) ==
    LET n == Len(rows)
        InOrder(p) ==
            \A i, j \in 1..n :
                i < j => IF ascending
                         THEN rows[p[i]][by] <= rows[p[j]][by]
                         ELSE rows[p[i]][by] >= rows[p[j]][by]
    IN  {[i \in 1..n |-> rows[p[i]]] : p \in {q \in Perms(n) : InOrder(q)}}

(***************************************************************************)
(* parse_results_from_json                                                 *)
(***************************************************************************)
Skip == [kind |-> "skip"]

\* the name with the .strip() forgotten
name_of_unstripped(item) ==
    LET dn == Get(item, "DisplayName")
    IN  IF Truthy(dn) THEN Ok(dn)
        ELSE LET a == py_add(OrEmpty(Get(item, "FirstName")), JStr(<<" ">>))
             IN  IF a.kind = "raise" THEN a
                 ELSE py_add(a.val, OrEmpty(Get(item, "LastName")))

\* lines 111-113: DisplayName, or FirstName + " " + LastName stripped
name_of(item) ==
    LET dn == Get(item, "DisplayName")
    IN  IF Truthy(dn) THEN Ok(dn)
        ELSE LET a == py_add(OrEmpty(Get(item, "FirstName")), JStr(<<" ">>))
             IN  IF a.kind = "raise" THEN a
                 ELSE LET b == py_add(a.val, OrEmpty(Get(item, "LastName")))
                      IN  IF b.kind = "raise" THEN b
                          ELSE Ok(JStr(Strip(b.val.s)))

\* one pass of the loop body, lines 95-121: a row, a "continue", or an
\* exception that leaves the function.  Only TypeError and ValueError of
\* int() are caught; item.get needs item to be a dict.
row_of(item) ==
    IF item.t # "dict" THEN Raise("AttributeError")
    ELSE LET r == py_int(Get(item, "RankingFinal"))
         IN  IF r.kind = "raise"
             THEN (IF r.exc \in {"TypeError", "ValueError"} THEN Skip ELSE r)
             ELSE IF ~(1 <= r.val /\ r.val <= 30) THEN Skip
             ELSE LET nation == Get(item, "NationCC3")
                  IN  IF ~Truthy(nation) THEN Skip
                      ELSE LET nm == name_of(item)
                           IN  IF nm.kind = "raise" THEN nm
                               ELSE Ok([Rank |-> r.val, Nation |-> nation,
                                        Name |-> nm.val])

\* the loop of lines 93-121: the rows in input order, or the first exception
RECURSIVE collect_rows(_, _)
collect_rows(items, rows) ==
    IF items = <<>> THEN Ok(rows)
    ELSE LET o == row_of(Head(items))
         IN  CASE o.kind = "raise" -> o
               [] o.kind = "skip"  -> collect_rows(Tail(items), rows)
               [] o.kind = "ok"    -> collect_rows(Tail(items), Append(rows, o.val))

\* the outcomes parse_results_from_json(data) can have
parse_results_from_json(d) ==
    IF d.t # "dict" THEN {Raise("AttributeError")}
    ELSE LET results == IF "Results" \in KeysOf(d) THEN Get(d, "Results")
                        ELSE JList(<<>>)
             it      == py_iter(results)
         IN  IF it.kind = "raise" THEN {it}
             ELSE LET c == collect_rows(it.val, <<>>)
                  IN  IF c.kind = "raise" THEN {c}
                      ELSE IF IsEmpty(DataFrame(c.val)) THEN {Ok(DataFrame(c.val))}
                      ELSE {Ok([DataFrame(c.val) EXCEPT !.rows = sorted]) :
                                sorted \in sort_values(c.val, "Rank", TRUE)}

(***************************************************************************)
(* compute_points_by_nation                                                *)
(***************************************************************************)
FIS_POINTS ==
    <<100, 80, 60, 50, 45, 40, 36, 32, 29, 26, 24, 22, 20, 18, 16,
      15, 14, 13, 12, 11, 10, 9, 8, 7, 6, 5, 4, 3, 2, 1>>

\* the lookup with ranks past the table scoring like the last rank instead
\* of 0
map_points_clamped(rank) ==
    IF rank \in DOMAIN FIS_POINTS THEN FIS_POINTS[rank]
    ELSE IF rank > Len(FIS_POINTS) THEN FIS_POINTS[Len(FIS_POINTS)] ELSE 0

\* df["Rank"].map(FIS_POINTS).fillna(0).astype(int), for one rank
map_points(rank) == IF rank \in DOMAIN FIS_POINTS THEN FIS_POINTS[rank] ELSE 0

\* code points of the characters the model's nation codes are written in
CodePoint ==
    ("A" :> 65) @@ ("I" :> 73) @@ ("S" :> 83) @@ ("T" :> 84) @@ ("U" :> 85) @@
    ("a" :> 97) @@ ("t" :> 116) @@ ("u" :> 117)

\* Python's str < str: lexicographic by code point
RECURSIVE StrLess(_, _)
StrLess(a, b) ==
    IF b = <<>> THEN FALSE
    ELSE IF a = <<>> THEN TRUE
    ELSE IF Head(a) # Head(b) THEN CodePoint[Head(a)] < CodePoint[Head(b)]
    ELSE StrLess(Tail(a), Tail(b))

\* sum of the Points of the rows of one nation
RECURSIVE SumPoints(_, _)
SumPoints(rows, nation) ==
    IF rows = <<>> THEN 0
    ELSE (IF Head(rows).Nation = nation THEN Head(rows).Points ELSE 0)
         + SumPoints(Tail(rows), nation)

\* df.groupby("Nation", as_index=False)["Points"].sum(): one row per distinct
\* key, the keys sorted (sort=True is the default)
groupby_sum(rows) ==
    LET nations == {rows[i].Nation : i \in 1..Len(rows)}
        n       == Cardinality(nations)
        order   == CHOOSE f \in [1..n -> nations] :
                       \A i, j \in 1..n : i < j => StrLess(f[i].s, f[j].s)
    IN  [i \in 1..n |-> [Nation |-> order[i],
                         Points |-> SumPoints(rows, order[i])]]

\* the outcomes compute_points_by_nation(df) can have (Nation values: str)
compute_points_by_nation(frame) ==
    IF "Rank" \notin frame.columns THEN {Raise("KeyError")}
    ELSE LET with_points ==
                 [i \in 1..Len(frame.rows) |->
                     [Rank   |-> frame.rows[i].Rank,
                      Nation |-> frame.rows[i].Nation,
                      Name   |-> frame.rows[i].Name,
                      Points |-> map_points(frame.rows[i].Rank)]]
         IN  IF "Nation" \notin frame.columns THEN {Raise("KeyError")}
             ELSE {Ok([columns |-> {"Nation", "Points"}, rows |-> sorted]) :
                       sorted \in sort_values(groupby_sum(with_points), "Points", FALSE)}

(***************************************************************************)
(* The inputs of the model                                                 *)
(***************************************************************************)
SeqsUpTo(S, n) == UNION {[1..k -> S] : k \in 0..n}

S_AUT  == <<"A", "U", "T">>
S_SUI  == <<"S", "U", "I">>
S_aut  == <<"a", "u", "t">>
S_Jane == <<"J", "a", "n", "e">>
S_Doe  == <<"D", "o", "e">>

\* a key left out of an entry
Absent == [t |-> "absent"]
MkItem(rank, nation, dn, fn, ln) ==
    JDict(SelectSeq(<<[k |-> "RankingFinal", v |-> rank],
                      [k |-> "NationCC3",    v |-> nation],
                      [k |-> "DisplayName",  v |-> dn],
                      [k |-> "FirstName",    v |-> fn],
                      [k |-> "LastName",     v |-> ln]>>,
                    LAMBDA p : p.v.t # "absent"))

\* RankingFinal of every JSON type
RankValues ==
    {JStr(<<"1">>), JStr(<<"3", "1">>), JStr(<<"D", "N", "F">>),
     JStr(<<" ", "2", " ">>), JStr(<<"-", "1">>), JStr(<<"1", "_", "0">>),
     JStr(<<"1", ".", "5">>), JInt(30), JInt(0),
     JFloat("fin", 15), JFloat("inf", 0), JFloat("nan", 0),
     JBool(TRUE), JNull, Absent, JList(<<>>)}
NationValues == {JStr(S_SUI), JStr(S_aut), JStr(<<>>), JNull, Absent, JInt(0)}
\* DisplayName, FirstName, LastName
NameValues ==
    {<<Absent, JStr(S_Jane), JStr(S_Doe)>>,
     <<Absent, Absent, JStr(S_Doe)>>,
     <<Absent, JStr(S_Jane), JNull>>,
     <<Absent, Absent, Absent>>,
     <<JStr(<<>>), JStr(<<" ", "J">>), JStr(<<"D", " ">>)>>,
     <<JStr(<<" ", "B">>), JInt(5), Absent>>,
     <<JNull, JInt(5), JStr(S_Doe)>>,
     <<Absent, JStr(S_Jane), JList(<<>>)>>}

Items ==
    {MkItem(r, JStr(S_AUT), JStr(<<"A">>), Absent, Absent) : r \in RankValues}
    \cup {MkItem(JInt(2), n, JStr(<<"B">>), Absent, Absent) : n \in NationValues}
    \cup {MkItem(JStr(<<"1">>), JStr(S_SUI), nm[1], nm[2], nm[3]) : nm \in NameValues}
    \cup {JNull, JInt(5), JStr(<<"x">>), JList(<<>>)}

\* the documents: no Results key, Results of every JSON type, Results a list
Docs(n) ==
    {JDict(<<>>), JDict(<<[k |-> "Message", v |-> JStr(<<"x">>)]>>)}
    \cup {JDict(<<[k |-> "Results", v |-> r]>>) :
              r \in {JNull, JInt(5), JStr(<<>>), JStr(<<"x">>), JDict(<<>>),
                     JDict(<<[k |-> "x", v |-> JInt(1)]>>)}}
    \cup {JDict(<<[k |-> "Results", v |-> JList(xs)]>>) : xs \in SeqsUpTo(Items, n)}

\* the row tables handed to the aggregator alone: the frames "mit Rank/Nation"
\* of its docstring, ranks inside and outside the points table
AggRanks ==   {0, 1, 2, 30, 31}
AggNations == {JStr(S_AUT), JStr(S_SUI), JStr(S_aut)}
AggRows ==
    {[Rank |-> r, Nation |-> n, Name |-> JStr(<<>>)] : r \in AggRanks, n \in AggNations}
Tables(n) ==
    {[columns |-> {"Rank", "Nation", "Name"}, rows |-> rs] : rs \in SeqsUpTo(AggRows, n)}

(***************************************************************************)
(* The four functions, each called on the inputs of the model              *)
(***************************************************************************)
DefaultUrl ==
    <<"h", "t", "t", "p", "s", ":", "/", "/", "s", "p", "o", "r", "t", ".",
      "o", "r", "f", ".", "a", "t", "/", "s", "k", "i", "a", "l", "p", "i", "n",
      "/", "#", "/", "t", "e", "r", "m", "i", "n", "e">>

\* everything at rest: nothing typed, nothing called
Idle ==
    /\ user_url = DefaultUrl /\ event_id = NotCalled
    /\ obj = <<>> /\ found = NotCalled
    /\ data = JNull /\ df_results = NotCalled
    /\ df = DataFrame(<<>>) /\ df_nat = NotCalled
    /\ fetched = NotCalled /\ pc = "form" /\ log = <<>> /\ report = "none"

\* ---- extract_event_id_from_url ----
InitExtract ==
    /\ user_url \in Urls(MaxFragments) /\ event_id = NotCalled
    /\ obj = <<>> /\ found = NotCalled
    /\ data = JNull /\ df_results = NotCalled
    /\ df = DataFrame(<<>>) /\ df_nat = NotCalled
    /\ fetched = NotCalled /\ pc = "form" /\ log = <<>> /\ report = "none"

ExtractCall ==
    /\ event_id.kind = "none"
    /\ event_id' = extract_event_id_from_url(user_url)
    /\ UNCHANGED <<user_url, obj, found, data, df_results, df, df_nat,
                   fetched, pc, log, report>>

SpecExtract == InitExtract /\ [][ExtractCall]_vars

\* ---- _find_result_items ----
\* the JSON value is built bottom-up on obj; obj[1] is searched once obj
\* holds a single value
PushScalar(v) ==
    /\ found.kind = "none"
    /\ SizeAll(obj) + 1 <= MaxNodes
    /\ obj' = Append(obj, v)
    /\ UNCHANGED <<user_url, event_id, found, data, df_results, df, df_nat,
                   fetched, pc, log, report>>

\* the last k values become the elements of a list
MakeList(k) ==
    /\ found.kind = "none"
    /\ SizeAll(obj) + 1 <= MaxNodes
    /\ obj' = Append(SubSeq(obj, 1, Len(obj) - k),
                     JList(SubSeq(obj, Len(obj) - k + 1, Len(obj))))
    /\ UNCHANGED <<user_url, event_id, found, data, df_results, df, df_nat,
                   fetched, pc, log, report>>

\* the last Len(ks) values become the values of a dict with the keys ks
MakeDict(ks) ==
    /\ found.kind = "none"
    /\ SizeAll(obj) + 1 <= MaxNodes
    /\ LET k == Len(ks)
       IN  obj' = Append(SubSeq(obj, 1, Len(obj) - k),
                         JDict([i \in 1..k |->
                                   [k |-> ks[i], v |-> obj[Len(obj) - k + i]]]))
    /\ UNCHANGED <<user_url, event_id, found, data, df_results, df, df_nat,
                   fetched, pc, log, report>>

FindCall ==
    /\ found.kind = "none"
    /\ Len(obj) = 1
    /\ found' = Ok(find_result_items(obj[1]))
    /\ UNCHANGED <<user_url, event_id, obj, data, df_results, df, df_nat,
                   fetched, pc, log, report>>

NextFind ==
    \/ \E v \in BuildScalars : PushScalar(v)
    \/ \E k \in 0..Len(obj) : MakeList(k)
    \/ \E k \in 0..Len(obj) : \E ks \in KeySeqs(k) : MakeDict(ks)
    \/ FindCall

SpecFind == Idle /\ [][NextFind]_vars

\* ---- parse_results_from_json, and compute_points_by_nation on its result ----
InitNormalize ==
    /\ user_url = DefaultUrl /\ event_id = NotCalled
    /\ obj = <<>> /\ found = NotCalled
    /\ data \in Docs(MaxItems) /\ df_results = NotCalled
    /\ df = DataFrame(<<>>) /\ df_nat = NotCalled
    /\ fetched = NotCalled /\ pc = "form" /\ log = <<>> /\ report = "none"

ParseCall ==
    /\ df_results.kind = "none"
    /\ df_results' \in parse_results_from_json(data)
    /\ UNCHANGED <<user_url, event_id, obj, found, data, df, df_nat,
                   fetched, pc, log, report>>

\* a caller hands the table parse_results_from_json returned to the aggregator
AggregateParsed ==
    /\ df_results.kind = "ok" /\ df_nat.kind = "none"
    /\ df' = df_results.val
    /\ df_nat' \in compute_points_by_nation(df_results.val)
    /\ UNCHANGED <<user_url, event_id, obj, found, data, df_results,
                   fetched, pc, log, report>>

NextNormalize == ParseCall \/ AggregateParsed

SpecNormalize == InitNormalize /\ [][NextNormalize]_vars

\* ---- compute_points_by_nation ----
InitAggregate ==
    /\ user_url = DefaultUrl /\ event_id = NotCalled
    /\ obj = <<>> /\ found = NotCalled
    /\ data = JNull /\ df_results = NotCalled
    /\ df \in Tables(MaxRows) /\ df_nat = NotCalled
    /\ fetched = NotCalled /\ pc = "form" /\ log = <<>> /\ report = "none"

AggregateCall ==
    /\ df_nat.kind = "none"
    /\ df_nat' \in compute_points_by_nation(df)
    /\ UNCHANGED <<user_url, event_id, obj, found, data, df_results, df,
                   fetched, pc, log, report>>

SpecAggregate == InitAggregate /\ [][AggregateCall]_vars

(***************************************************************************)
(* The submit handler, lines 172-223: one try block, three except clauses  *)
(***************************************************************************)
\* the except clauses in their order: ValueError, requests.RequestException,
\* Exception.  requests' JSONDecodeError (resp.json() on a body that is not
\* JSON) is a ValueError as well as a RequestException: the first clause wins
handler_of(exc) ==
    CASE exc \in {"ValueError", "JSONDecodeError"}      -> "url_error"
      [] exc \in {"RequestException"}                   -> "transport_error"
      [] OTHER                                          -> "unexpected"

\* the branch of line 180 with the emptiness check dropped
after_parse_unchecked(frame) == "compute"

\* line 180: if df_results.empty: report it, else go on to the aggregation
after_parse(frame) == IF IsEmpty(frame) THEN "empty" ELSE "compute"

\* what the form can hold when it is submitted
SubmitUrls ==
    {DefaultUrl, <<>>, Marker_event,
     <<"#">> \o Marker_event \o <<"1", "1", "9", "8", "6">>,
     Marker_sportevents \o <<"7">> \o <<"?">>}

\* what the feed can answer: any document of the model, or JSON that is no
\* object at all
FetchDocs == Docs(MaxItems) \cup {JList(<<>>)}
FetchOutcomes ==
    {Ok(d) : d \in FetchDocs} \cup {Raise("RequestException"), Raise("JSONDecodeError")}

Init == Idle

EditUrl(u) ==
    /\ pc = "form"
    /\ user_url' = u
    /\ UNCHANGED <<event_id, obj, found, data, df_results, df, df_nat,
                   fetched, pc, log, report>>

Submit ==
    /\ pc = "form"
    /\ pc' = "extract"
    /\ UNCHANGED <<user_url, event_id, obj, found, data, df_results, df, df_nat,
                   fetched, log, report>>

\* line 174
StepExtract ==
    /\ pc = "extract"
    /\ event_id' = extract_event_id_from_url(user_url)
    /\ log' = Append(log, "extract")
    /\ IF event_id'.kind = "raise"
       THEN pc' = "done" /\ report' = handler_of(event_id'.exc)
       ELSE pc' = "fetch" /\ UNCHANGED report
    /\ UNCHANGED <<user_url, obj, found, data, df_results, df, df_nat, fetched>>

\* line 176: the transport is outside the program, its outcome is any of
\* FetchOutcomes
StepFetch ==
    /\ pc = "fetch"
    /\ \E o \in FetchOutcomes :
          /\ fetched' = (IF o.kind = "ok" THEN Ok("json") ELSE o)
          /\ IF o.kind = "raise"
             THEN pc' = "done" /\ report' = handler_of(o.exc) /\ UNCHANGED data
             ELSE pc' = "parse" /\ data' = o.val /\ UNCHANGED report
    /\ log' = Append(log, "fetch")
    /\ UNCHANGED <<user_url, event_id, obj, found, df_results, df, df_nat>>

\* lines 178-184
StepParse ==
    /\ pc = "parse"
    /\ \E o \in parse_results_from_json(data) :
          /\ df_results' = o
          /\ IF o.kind = "raise"
             THEN pc' = "done" /\ report' = handler_of(o.exc)
             ELSE IF after_parse(o.val) = "empty"
                  THEN pc' = "done" /\ report' = "empty"
                  ELSE pc' = "compute" /\ UNCHANGED report
    /\ log' = Append(log, "normalize")
    /\ UNCHANGED <<user_url, event_id, obj, found, data, df, df_nat, fetched>>

\* lines 186-216
StepCompute ==
    /\ pc = "compute"
    /\ df' = df_results.val
    /\ \E o \in compute_points_by_nation(df_results.val) :
          /\ df_nat' = o
          /\ report' = (IF o.kind = "raise" THEN handler_of(o.exc) ELSE "shown")
    /\ pc' = "done"
    /\ log' = Append(log, "aggregate")
    /\ UNCHANGED <<user_url, event_id, obj, found, data, df_results, fetched>>

\* the next run of the script starts from scratch; the form keeps its text
Rerun ==
    /\ pc = "done"
    /\ pc' = "form" /\ log' = <<>> /\ report' = "none"
    /\ event_id' = NotCalled /\ fetched' = NotCalled /\ data' = JNull
    /\ df_results' = NotCalled /\ df' = DataFrame(<<>>) /\ df_nat' = NotCalled
    /\ UNCHANGED <<user_url, obj, found>>

Next ==
    \/ \E u \in SubmitUrls : EditUrl(u)
    \/ Submit
    \/ StepExtract
    \/ StepFetch
    \/ StepParse
    \/ StepCompute
    \/ Rerun

Spec == Init /\ [][Next]_vars

(***************************************************************************)
(* The claims                                                              *)
(***************************************************************************)
\* sum of f over the index set S
RECURSIVE SumF(_, _)
SumF(f, S) ==
    IF S = {} THEN 0
    ELSE LET x == CHOOSE y \in S : TRUE IN f[x] + SumF(f, S \ {x})

\* ---------------------------------------------------------------- C1 ----
\* a marker directly followed by a digit starts at index i of s
MarkerDigitAt(s, i) ==
    \E m \in {Marker_event, Marker_sportevents} :
        /\ HasAt(s, i, m)
        /\ i + Len(m) <= Len(s)
        /\ IsDigit(s[i + Len(m)])

\* C1: extract_event_id_from_url raises ValueError exactly when the string
\* holds no marker directly followed by a digit; otherwise it returns the
\* whole digit run (non-empty, maximal, leading zeros kept) that follows the
\* leftmost such marker.
C1_ExtractContract ==
    event_id.kind # "none" =>
        LET s == user_url
            P == {i \in 1..Len(s) : MarkerDigitAt(s, i)}
        IN  /\ (event_id.kind = "raise") <=> (P = {})
            /\ event_id.kind = "raise" => event_id.exc = "ValueError"
            /\ P # {} =>
                 LET i == Min(P)
                     m == CHOOSE mk \in {Marker_event, Marker_sportevents} :
                              HasAt(s, i, mk)
                     j == i + Len(m)
                 IN  \E k \in j..Len(s) :
                        /\ event_id.val = SubSeq(s, j, k)
                        /\ \A x \in j..k : IsDigit(s[x])
                        /\ (k = Len(s) \/ ~IsDigit(s[k + 1]))

\* C1 witness: a two-digit identifier with a leading zero, cut at a
\* non-digit, was returned
C1_Witness ==
    /\ event_id = Ok(<<"0", "7">>)
    /\ user_url[Len(user_url)] = "x"

\* ---------------------------------------------------------------- C8 ----
ChildrenOf(o) ==
    IF o.t = "dict" THEN [i \in 1..Len(o.kv) |-> o.kv[i].v]
    ELSE IF o.t = "list" THEN o.items
    ELSE <<>>

\* the positions of the tree: the child indexes on the way from the root
RECURSIVE PathsOf(_)
PathsOf(o) ==
    {<<>>} \cup UNION {{<<i>> \o q : q \in PathsOf(ChildrenOf(o)[i])} :
                          i \in 1..Len(ChildrenOf(o))}

RECURSIVE NodeAt(_, _)
NodeAt(o, q) == IF q = <<>> THEN o ELSE NodeAt(ChildrenOf(o)[Head(q)], Tail(q))

IsCandidate(o) ==
    /\ o.t = "dict"
    /\ KeysOf(o) \cap {"rank", "position", "place"} # {}
    /\ KeysOf(o) \cap {"nation", "nationShort", "countryCode", "country"} # {}

IsPrefix(a, b) == Len(a) <= Len(b) /\ SubSeq(b, 1, Len(a)) = a

\* depth-first pre-order: a node before what is below it, and left before right
Before(a, b) ==
    /\ a # b
    /\ \/ IsPrefix(a, b)
       \/ \E i \in 1..Len(a) :
            /\ i <= Len(b)
            /\ SubSeq(a, 1, i - 1) = SubSeq(b, 1, i - 1)
            /\ a[i] < b[i]

TableOrZero(rank) == IF 1 <= rank /\ rank <= 30 THEN FIS_POINTS[rank] ELSE 0

\* C5: compute_points_by_nation returns one row per distinct nation string
\* of the input (exact string equality), its points the sum of the table
\* values of that nation's rows, 0 for a rank outside the table; the points
\* of all nations add up to the sum over all input rows.
C5_SumPerNation ==
    df_nat.kind # "none" =>
        /\ df_nat.kind = "ok"
        /\ LET in    == df.rows
               out   == df_nat.val.rows
               score == [i \in 1..Len(in) |-> TableOrZero(in[i].Rank)]
               total == [i \in 1..Len(out) |-> out[i].Points]
           IN  /\ {out[i].Nation : i \in 1..Len(out)} = {in[i].Nation : i \in 1..Len(in)}
               /\ \A i, j \in 1..Len(out) : i # j => out[i].Nation # out[j].Nation
               /\ \A i \in 1..Len(out) :
                    out[i].Points =
                        SumF(score, {k \in 1..Len(in) : in[k].Nation = out[i].Nation})
               /\ SumF(total, 1..Len(out)) = SumF(score, 1..Len(in))

\* C5 witness: a nation with two rows, a rank outside the table, and two
\* nation codes that differ in case only
C5_Witness ==
    /\ df_nat.kind = "ok"
    /\ \E i, j \in 1..Len(df.rows) : i # j /\ df.rows[i].Nation = df.rows[j].Nation
    /\ \E i \in 1..Len(df.rows) : df.rows[i].Rank > 30
    /\ {JStr(S_AUT), JStr(S_aut)} \subseteq {df.rows[i].Nation : i \in 1..Len(df.rows)}
    /\ Len(df_nat.val.rows) = 2

\* ------------------------------------------------------- C2, C3, C4, C9 ----
\* the entries of Results: its elements when it is a list, none otherwise
EntriesOf(d) ==
    IF "Results" \in KeysOf(d) /\ Get(d, "Results").t = "list"
    THEN Get(d, "Results").items
    ELSE <<>>

\* RankingFinal resolves to an integer in [1,30]; NationCC3 is present and
\* not empty (empty as Python has it: "", null, 0, false, [], {})
Qualifies(e) ==
    /\ e.t = "dict"
    /\ LET r == py_int(Get(e, "RankingFinal"))
       IN  r.kind = "ok" /\ 1 <= r.val /\ r.val <= 30
    /\ Truthy(Get(e, "NationCC3"))

\* C2: for every document the call returns one row per qualifying entry and
\* none for any other entry; without a Results key it returns no row.
C2_OneRowPerQualifying ==
    df_results.kind # "none" =>
        /\ df_results.kind = "ok"
        /\ Len(df_results.val.rows) =
              Cardinality({i \in 1..Len(EntriesOf(data)) : Qualifies(EntriesOf(data)[i])})
        /\ "Results" \notin KeysOf(data) => df_results.val.rows = <<>>

\* the rows in the order of the entries they come from
RowsInInputOrder(d) == collect_rows(EntriesOf(d), <<>>).val

\* C3: the rows are in ascending rank order, and rows of equal rank keep the
\* order of their entries in Results.
C3_SortedStable ==
    df_results.kind = "ok" =>
        LET out == df_results.val.rows
            src == RowsInInputOrder(data)
        IN  /\ \A i, j \in 1..Len(out) : i < j => out[i].Rank <= out[j].Rank
            /\ \E p \in Perms(Len(out)) :
                 /\ \A i \in 1..Len(out) : out[i] = src[p[i]]
                 /\ \A i, j \in 1..Len(out) :
                      (i < j /\ out[i].Rank = out[j].Rank) => p[i] < p[j]

\* C4: no exception leaves parse_results_from_json, whatever the document
\* holds.
C4_NoExceptionEscapes == df_results.kind # "raise"

\* an entry without its name fields
WithoutNames(e) ==
    IF e.t # "dict" THEN e
    ELSE JDict(SelectSeq(e.kv,
                 LAMBDA p : p.k \notin {"DisplayName", "FirstName", "LastName"}))
NamesRemoved(d) ==
    IF EntriesOf(d) = <<>> THEN d
    ELSE JDict(<<[k |-> "Results",
                  v |-> JList([i \in 1..Len(EntriesOf(d)) |->
                                  WithoutNames(EntriesOf(d)[i])])]>>)

\* what an outcome says about which entries were kept
KeptOf(o) ==
    IF o.kind # "ok" THEN <<"raise">>
    ELSE [i \in 1..Len(o.val.rows) |-> <<o.val.rows[i].Rank, o.val.rows[i].Nation>>]

\* C9: every row of a returned table has a rank in [1,30], the non-empty
\* NationCC3 of its entry and as name the entry's DisplayName if that is not
\* empty, else FirstName + " " + LastName (missing parts empty) stripped,
\* possibly the empty string; and the name fields have no say in which
\* entries the table holds: without them the same entries are kept.
C9_WellFormedRows ==
    df_results.kind = "ok" =>
        /\ \A i \in 1..Len(df_results.val.rows) :
              LET row == df_results.val.rows[i]
              IN  /\ row.Rank \in 1..30
                  /\ \E k \in 1..Len(EntriesOf(data)) :
                       LET e  == EntriesOf(data)[k]
                           dn == Get(e, "DisplayName")
                           fn == Get(e, "FirstName")
                           ln == Get(e, "LastName")
                           part(v) == IF v.t = "str" THEN v.s ELSE <<>>
                       IN  /\ Qualifies(e)
                           /\ row.Rank = py_int(Get(e, "RankingFinal")).val
                           /\ row.Nation = Get(e, "NationCC3")
                           /\ row.Name = IF Truthy(dn) THEN dn
                                         ELSE JStr(Strip(part(fn) \o <<" ">> \o part(ln)))
        /\ \E o \in parse_results_from_json(NamesRemoved(data)) :
               KeptOf(o) = KeptOf(df_results)

\* C9 witness: a table with a name put together from FirstName and LastName
\* and a row whose name is empty
C9_Witness ==
    /\ df_results.kind = "ok"
    /\ \E i, j \in 1..Len(df_results.val.rows) :
          /\ df_results.val.rows[i].Name = JStr(S_Jane \o <<" ">> \o S_Doe)
          /\ df_results.val.rows[j].Name = JStr(<<>>)

\* ---------------------------------------------------------------- C6 ----
\* C6: the totals come in descending order of points, and the order of
\* nations with equal points is fixed by the input: the call has one
\* possible result.
C6_DeterministicTieBreak ==
    df_nat.kind = "ok" =>
        LET out == df_nat.val.rows
        IN  /\ \A i, j \in 1..Len(out) : i < j => out[i].Points >= out[j].Points
            /\ \A o \in compute_points_by_nation(df) : o = df_nat

\* ---------------------------------------------------------------- C7 ----
\* C7: compute_points_by_nation on a table without rows, the one
\* parse_results_from_json returns included, returns a table without rows.
C7_EmptyInEmptyOut ==
    (df_nat.kind # "none" /\ IsEmpty(df)) =>
        (df_nat.kind = "ok" /\ df_nat.val.rows = <<>>)

\* --------------------------------------------------------------- C10 ----
Steps == <<"extract", "fetch", "normalize", "aggregate">>

\* C10: the submit handler calls extract, fetch, normalize, aggregate in this
\* order, each only after the one before returned; a run whose normalization
\* returned no rows ends with the empty-result report and without a call of
\* compute_points_by_nation, which therefore only ever gets a table with rows.
C10_SubmitPipeline ==
    /\ Len(log) <= Len(Steps) /\ log = SubSeq(Steps, 1, Len(log))
    /\ Len(log) >= 2 => event_id.kind = "ok"
    /\ Len(log) >= 3 => fetched.kind = "ok"
    /\ Len(log) >= 4 =>
         /\ df_results.kind = "ok"
         /\ ~IsEmpty(df_results.val)
         /\ df = df_results.val
    /\ (pc = "done" /\ df_results.kind = "ok" /\ IsEmpty(df_results.val)) =>
         /\ report = "empty"
         /\ log = SubSeq(Steps, 1, 3)
         /\ df_nat.kind = "none"
    /\ report = "empty" => (df_results.kind = "ok" /\ IsEmpty(df_results.val))

\* C10 witness: a run over a document with entries, none of which survived,
\* ended with the empty-result report
C10_Witness ==
    /\ pc = "done" /\ report = "empty"
    /\ log = <<"extract", "fetch", "normalize">>
    /\ EntriesOf(data) # <<>>

=============================================================================
